---- MODULE Spec2Model ----
(***************************************************************************)
(* Booking scheduling core of crm-dashboard.                               *)
(*                                                                         *)
(* The model covers the three server entry points that write booking rows  *)
(* (public POST /api/public-bookings, admin POST and PUT /api/bookings)     *)
(* and the service update endpoint (PUT /api/services), over an abstract    *)
(* store holding the `booking` and `service` tables; the availability       *)
(* answers the calendar page and the booking wizard compute from the stored *)
(* bookings; and the wizard's slot grid.  It also covers the admin DELETE   *)
(* of a booking, /api/bookings as called by an employee, and the public     *)
(* booking wizard: its four steps, the phone lookup and submitBooking.      *)
(*                                                                         *)
(* Time is counted in grid slots.  A calendar day has DayLen slots; a       *)
(* local wall-clock value (booking_date d, time of day t) is the local      *)
(* slot d * DayLen + t; stored timestamps are UTC slots, TzOffset slots     *)
(* behind the server's local clock.                                         *)
(***************************************************************************)
EXTENDS Integers, FiniteSets, Sequences, TLC

VARIABLES
    booking,    \* the booking table: a set of rows
    service,    \* the service table: id -> [price, duration_service_in_s]
    nextId,     \* next row id the store hands out
    ncalls,     \* number of completed HTTP calls
    last,       \* entry point and response code of the most recent call
    req,        \* in-flight public create requests, one per client
    avail,      \* a browser page's fetched bookings and its last slot query
    grid,       \* the evaluation of the wizard's timeSlots computed
    wz          \* the booking wizard: bookingState, currentStep, page refs

vars == <<booking, service, nextId, ncalls, last, req, avail, grid, wz>>

----------------------------------------------------------------------------
(* Bounds *)

NumEmployees == 2
NumServices == 2
MaxDate == 2
DayLen == 4
MaxDur == 3
MaxPrice == 2
MaxBookings == 2
MaxCalls == 3
MaxPatchFields == 2
NumClients == 2
TzOffset == 1
NumPhones == 2
MaxStepArg == 5

Employees == 1..NumEmployees
Services == 1..NumServices
RequestedServices == 1..(NumServices + 1)  \* the last id names no service row
Dates == 1..MaxDate
TimesOfDay == 0..(DayLen - 1)
Durations == 1..MaxDur
Prices == 1..MaxPrice
BookingIds == 1..MaxBookings

\* Request values that fail validation or name no row
UnknownEmployee == NumEmployees + 1       \* a well-formed id of no employee
BadId == -2                               \* not a UUID
BadDate == -2                             \* not YYYY-MM-DD
BadTimeText == -2                         \* not of the form HH:MM
BadTimeRange == -3                        \* two digits, colon, two digits, no time of day ("99:99")
RequestedEmployees == Employees \cup {UnknownEmployee, BadId}
RequestedDates == Dates \cup {BadDate}
RequestedTimes == TimesOfDay \cup {BadTimeText, BadTimeRange}
Clients == 1..NumClients

Absent == -1

Statuses == {"pending", "confirmed", "completed", "cancelled"}

----------------------------------------------------------------------------
(* Date conversions *)

\* new Date(`${booking_date}T${start_time}:00`): the string has no zone
\* designator, so it is read as server-local wall-clock time.
LocalDateTime(d, t) == d * DayLen + t

\* Date.prototype.toISOString: the UTC rendering of a local date-time.
ToISOString(local) == local - TzOffset

\* new Date(isoString): back from a stored UTC timestamp to local time.
ParseISO(iso) == iso + TzOffset

\* Date.prototype.toTimeString().substring(0, 5): local HH:MM.
ToTimeString(local) == local % DayLen

----------------------------------------------------------------------------
(* Store helpers *)

\* A browser page that has fetched nothing and asked nothing
\* A browser page that has asked about no slot
NoPage == [page |-> "none", occupied |-> FALSE]

\* timeSlots before its first evaluation: where the loops stand, the slots
\* pushed so far, and the value the evaluation before this one returned
NotEvaluated == [pc |-> "idle", hour |-> 0, minute |-> 0, slots |-> <<>>, first |-> <<>>]

NoCall == [op |-> "none", code |-> 0, id |-> Absent, shape |-> "none"]

IdleReq ==
    [pc |-> "idle", employee_id |-> Absent, service_id |-> Absent,
     booking_date |-> Absent, startTimeISO |-> Absent, endTimeISO |-> Absent,
     price |-> Absent, duration |-> Absent, code |-> 0]

\* .from('service').select(...).eq('id', id).single(): an error when no row
ServiceFound(id) == id \in DOMAIN service

\* The booking table's foreign key to the employee table
EmployeeFound(id) == id \in Employees

\* createBookingSchema of the public endpoint: UUID-shaped ids, a
\* YYYY-MM-DD date, start_time any string
PublicBodyValid(e, s, d, t) == e # BadId /\ d # BadDate

\* createBookingSchema of the admin endpoint: as above, and start_time
\* matching /^\d{2}:\d{2}$/
AdminBodyValid(e, s, d, t) == e # BadId /\ d # BadDate /\ t # BadTimeText

\* new Date(`${date}T${time}:00`) is a valid date: toISOString throws a
\* RangeError on an invalid one
ValidTime(t) == t \in TimesOfDay

\* .from('booking').select(...).eq('id', id).single()
BookingFound(id) == \E b \in booking : b.id = id

BookingById(id) == CHOOSE b \in booking : b.id = id

\* The row both create paths insert.  resolved_duration is a history field:
\* the service duration used the last time end_time was computed.
NewRow(e, s, d, startISO, endISO, svc) ==
    [id |-> nextId, employee_id |-> e, service_id |-> s, booking_date |-> d,
     start_time |-> startISO, end_time |-> endISO, status |-> "pending",
     total_price |-> svc.price, notes |-> 0,
     resolved_duration |-> svc.duration]

\* The conflict query of the public create path: rows of the employee on
\* the same booking_date with start_time <= endTimeISO and
\* end_time >= startTimeISO.
Conflicts(rows, e, d, startISO, endISO) ==
    {b \in rows : /\ b.employee_id = e
                  /\ b.booking_date = d
                  /\ b.start_time <= endISO
                  /\ b.end_time >= startISO}

\* The entry point called, the HTTP status it answered with, the booking id
\* the call named or returned, and (for an update) the shape of its patch.
CallRecord(op, code, id, shape) == [op |-> op, code |-> code, id |-> id, shape |-> shape]

----------------------------------------------------------------------------
(* POST /api/public-bookings, handled without interleaving.  The request's   *)
(* client_profile_id and customer_id name existing rows; the service id may   *)
(* name none.                                                                 *)

\* A variant of the public create that stores the row before it looks for
\* conflicts, and answers 409 without taking the row back.
PublicCreateInsertingFirst(e, s, d, t) ==
    /\ ncalls < MaxCalls
    /\ ncalls' = ncalls + 1
    /\ UNCHANGED <<service, req, avail, grid, wz>>
    /\ IF ~PublicBodyValid(e, s, d, t)
       THEN /\ last' = CallRecord("publicCreate", 400, Absent, "none")
            /\ UNCHANGED <<booking, nextId>>
       ELSE IF ~ServiceFound(s)
       THEN /\ last' = CallRecord("publicCreate", 404, Absent, "none")
            /\ UNCHANGED <<booking, nextId>>
       ELSE IF ~ValidTime(t) \/ ~EmployeeFound(e)
       THEN /\ last' = CallRecord("publicCreate", 500, Absent, "none")
            /\ UNCHANGED <<booking, nextId>>
       ELSE LET startDateTime == LocalDateTime(d, t)
                endDateTime == startDateTime + service[s].duration
                startTimeISO == ToISOString(startDateTime)
                endTimeISO == ToISOString(endDateTime)
                conflicts == Conflicts(booking, e, d, startTimeISO, endTimeISO)
            IN /\ nextId <= MaxBookings
               /\ booking' = booking \cup
                      {NewRow(e, s, d, startTimeISO, endTimeISO, service[s])}
               /\ nextId' = nextId + 1
               /\ last' = IF conflicts # {}
                          THEN CallRecord("publicCreate", 409, Absent, "none")
                          ELSE CallRecord("publicCreate", 200, nextId, "none")

PublicCreate(e, s, d, t) ==
    /\ ncalls < MaxCalls
    /\ ncalls' = ncalls + 1
    /\ UNCHANGED <<service, req, avail, grid, wz>>
    /\ IF ~PublicBodyValid(e, s, d, t)
       THEN /\ last' = CallRecord("publicCreate", 400, Absent, "none")
            /\ UNCHANGED <<booking, nextId>>
       ELSE IF ~ServiceFound(s)
       THEN /\ last' = CallRecord("publicCreate", 404, Absent, "none")
            /\ UNCHANGED <<booking, nextId>>
       ELSE IF ~ValidTime(t)
       THEN /\ last' = CallRecord("publicCreate", 500, Absent, "none")
            /\ UNCHANGED <<booking, nextId>>
       ELSE LET startDateTime == LocalDateTime(d, t)
                endDateTime == startDateTime + service[s].duration
                startTimeISO == ToISOString(startDateTime)
                endTimeISO == ToISOString(endDateTime)
                conflicts == Conflicts(booking, e, d, startTimeISO, endTimeISO)
            IN IF conflicts # {}
               THEN /\ last' = CallRecord("publicCreate", 409, Absent, "none")
                    /\ UNCHANGED <<booking, nextId>>
               ELSE IF ~EmployeeFound(e)
               THEN /\ last' = CallRecord("publicCreate", 500, Absent, "none")
                    /\ UNCHANGED <<booking, nextId>>
               ELSE /\ nextId <= MaxBookings
                    /\ booking' = booking \cup
                           {NewRow(e, s, d, startTimeISO, endTimeISO, service[s])}
                    /\ nextId' = nextId + 1
                    /\ last' = CallRecord("publicCreate", 200, nextId, "none")

----------------------------------------------------------------------------
(* POST /api/bookings (admin) *)

AdminCreate(e, s, d, t) ==
    /\ ncalls < MaxCalls
    /\ ncalls' = ncalls + 1
    /\ UNCHANGED <<service, req, avail, grid, wz>>
    /\ IF ~AdminBodyValid(e, s, d, t)
       THEN /\ last' = CallRecord("adminCreate", 500, Absent, "none")
            /\ UNCHANGED <<booking, nextId>>
       ELSE IF ~ServiceFound(s)
       THEN /\ last' = CallRecord("adminCreate", 400, Absent, "none")
            /\ UNCHANGED <<booking, nextId>>
       ELSE IF ~ValidTime(t) \/ ~EmployeeFound(e)
       THEN /\ last' = CallRecord("adminCreate", 500, Absent, "none")
            /\ UNCHANGED <<booking, nextId>>
       ELSE LET startTime == LocalDateTime(d, t)
                endTime == startTime + service[s].duration
            IN /\ nextId <= MaxBookings
               /\ booking' = booking \cup
                      {NewRow(e, s, d, ToISOString(startTime), ToISOString(endTime), service[s])}
               /\ nextId' = nextId + 1
               /\ last' = CallRecord("adminCreate", 200, nextId, "none")

----------------------------------------------------------------------------
(* PUT /api/bookings?id= (admin) *)

\* updateBookingSchema: every field optional
UpdateBodies ==
    [employee_id : Employees \cup {Absent},
     service_id : RequestedServices \cup {Absent},
     booking_date : Dates \cup {Absent},
     start_time : TimesOfDay \cup {Absent},
     status : Statuses \cup {"absent"},
     notes : {1, Absent}]

Present(x) == IF x = Absent THEN 0 ELSE 1

PatchFields(patch) ==
    Present(patch.employee_id) + Present(patch.service_id)
    + Present(patch.booking_date) + Present(patch.start_time)
    + (IF patch.status = "absent" THEN 0 ELSE 1) + Present(patch.notes)

\* The body the calendar's edit form sends: employee, service, date and
\* start time together, with or without notes, never a status.
FormPatch(patch) ==
    /\ patch.employee_id # Absent
    /\ patch.service_id # Absent
    /\ patch.booking_date # Absent
    /\ patch.start_time # Absent
    /\ patch.status = "absent"

\* The update bodies explored: the edit form's, and any body of at most
\* MaxPatchFields fields.
Patches ==
    {patch \in UpdateBodies : FormPatch(patch) \/ PatchFields(patch) <= MaxPatchFields}

EmptyPatch ==
    [employee_id |-> Absent, service_id |-> Absent, booking_date |-> Absent,
     start_time |-> Absent, status |-> "absent", notes |-> Absent]

\* The guard of the recalculation block
Recalculates(patch) ==
    \/ patch.service_id # Absent
    \/ patch.start_time # Absent
    \/ patch.booking_date # Absent

\* Which part of the handler a patch exercises: the recalculation block, a
\* bare change of employee, or only status and notes.
PatchShape(patch) ==
    IF Recalculates(patch) THEN "recalculate"
    ELSE IF patch.employee_id # Absent THEN "employee"
    ELSE "plain"

\* validatedUpdateData.x || currentBookingQuery.data.x
Merged(patched, current) == IF patched # Absent THEN patched ELSE current

\* The time of day the recalculation starts from: the patch's start_time,
\* else the local HH:MM of the stored timestamp.
StartTimeForCalc(patch, cur) ==
    IF patch.start_time # Absent
    THEN patch.start_time
    ELSE ToTimeString(ParseISO(cur.start_time))

\* A variant of the update that runs the recalculation for every patch, so
\* that a status or notes edit also rewrites end_time and total_price from
\* the service as it is now.
ApplyUpdateRecalculatingAlways(row, patch, svc) ==
    LET startDateTime == LocalDateTime(Merged(patch.booking_date, row.booking_date),
                                       StartTimeForCalc(patch, row))
        endDateTime == startDateTime + svc.duration
    IN [row EXCEPT
          !.employee_id = Merged(patch.employee_id, @),
          !.service_id = Merged(patch.service_id, @),
          !.booking_date = Merged(patch.booking_date, @),
          !.start_time = IF patch.start_time # Absent
                         THEN ToISOString(startDateTime) ELSE @,
          !.end_time = ToISOString(endDateTime),
          !.total_price = svc.price,
          !.status = IF patch.status # "absent" THEN patch.status ELSE @,
          !.notes = Merged(patch.notes, @),
          !.resolved_duration = svc.duration]

\* finalUpdateData, as the columns it overwrites in the row: the patch's own
\* fields (start_time only as the recomputed timestamp) plus, after a
\* recalculation, end_time and total_price.
ApplyUpdate(row, patch, svc) ==
    LET recalc == Recalculates(patch)
        startDateTime == LocalDateTime(Merged(patch.booking_date, row.booking_date),
                                       StartTimeForCalc(patch, row))
        endDateTime == startDateTime + svc.duration
    IN [row EXCEPT
          !.employee_id = Merged(patch.employee_id, @),
          !.service_id = Merged(patch.service_id, @),
          !.booking_date = Merged(patch.booking_date, @),
          !.start_time = IF patch.start_time # Absent
                         THEN ToISOString(startDateTime) ELSE @,
          !.end_time = IF recalc THEN ToISOString(endDateTime) ELSE @,
          !.total_price = IF recalc THEN svc.price ELSE @,
          !.status = IF patch.status # "absent" THEN patch.status ELSE @,
          !.notes = Merged(patch.notes, @),
          !.resolved_duration = IF recalc THEN svc.duration ELSE @]

AdminUpdate(bookingId, patch) ==
    /\ ncalls < MaxCalls
    /\ patch # EmptyPatch
    /\ ncalls' = ncalls + 1
    /\ UNCHANGED <<service, nextId, req, avail, grid, wz>>
    /\ IF Recalculates(patch) /\ ~BookingFound(bookingId)
       THEN /\ last' = CallRecord("adminUpdate", 404, bookingId, PatchShape(patch))
            /\ UNCHANGED booking
       ELSE IF Recalculates(patch)
               /\ ~ServiceFound(Merged(patch.service_id, BookingById(bookingId).service_id))
       THEN /\ last' = CallRecord("adminUpdate", 400, bookingId, PatchShape(patch))
            /\ UNCHANGED booking
       ELSE IF ~BookingFound(bookingId)
       THEN /\ last' = CallRecord("adminUpdate", 500, bookingId, PatchShape(patch))
            /\ UNCHANGED booking
       ELSE LET cur == BookingById(bookingId)
                svc == IF Recalculates(patch)
                       THEN service[Merged(patch.service_id, cur.service_id)]
                       ELSE service[cur.service_id]
            IN /\ booking' = (booking \ {cur}) \cup {ApplyUpdate(cur, patch, svc)}
               /\ last' = CallRecord("adminUpdate", 200, bookingId, PatchShape(patch))

----------------------------------------------------------------------------
(* PUT /api/services?id= *)

ServiceUpdate(s, price, duration) ==
    /\ ncalls < MaxCalls
    /\ s \in DOMAIN service
    /\ ncalls' = ncalls + 1
    /\ service' = [service EXCEPT ![s] = [price |-> price, duration |-> duration]]
    /\ last' = CallRecord("serviceUpdate", 200, Absent, "none")
    /\ UNCHANGED <<booking, nextId, req, avail, grid, wz>>

----------------------------------------------------------------------------
(* DELETE /api/bookings?id= (admin), and /api/bookings called by an employee *)

\* delete().eq('id', id): removes the row if there is one; no error if none
AdminDelete(bookingId) ==
    /\ ncalls < MaxCalls
    /\ ncalls' = ncalls + 1
    /\ booking' = {b \in booking : b.id # bookingId}
    /\ last' = CallRecord("adminDelete", 200, bookingId, "none")
    /\ UNCHANGED <<service, nextId, req, avail, grid, wz>>

Methods == {"GET", "POST", "PUT", "DELETE"}

\* A variant of the employee's GET without .eq('employee_id', user.id)
GetBookingsUnfiltered(principal, queryEmployee) ==
    IF principal.role = "guest" THEN {} ELSE booking

\* The isEmployee block: 403 for every method but GET, the employee's own
\* rows for GET
EmployeeRequest(u, method) ==
    /\ ncalls < MaxCalls
    /\ ncalls' = ncalls + 1
    /\ last' = CallRecord("employeeRequest", IF method = "GET" THEN 200 ELSE 403,
                          Absent, method)
    /\ UNCHANGED <<booking, service, nextId, req, avail, grid, wz>>

----------------------------------------------------------------------------
(* Availability, as the pages compute it from GET /api/bookings.  A browser  *)
(* whose clock is z slots ahead of UTC reads a picked day and a slot label.  *)

\* Who calls GET /api/bookings: nobody logged in, an admin, or an employee
Principals ==
    [role : {"guest", "admin"}, employee : {Absent}]
        \cup [role : {"employee"}, employee : Employees]

\* The offsets of the browsers' clocks: UTC, and the server's own zone
BrowserZones == {0, TzOffset}

\* GET /api/bookings: 401 without a session (the page keeps its default, an
\* empty list), an employee's own rows, every row for an admin.  The query
\* string (employee_id, date) is not read.
GetBookings(principal, queryEmployee) ==
    IF principal.role = "employee"
    THEN {b \in booking : b.employee_id = principal.employee}
    ELSE IF principal.role = "admin" THEN booking
    ELSE {}

\* new Date(`${dateStr}T${time}:00`) in a browser of zone z, as an instant
InstantOf(d, t, z) == LocalDateTime(d, t) - z

\* formatDate: date.toISOString().split('T')[0], the UTC date of the instant
\* of a Date object that shows day d, time of day tau in the browser
FormatDate(d, tau, z) == InstantOf(d, tau, z) \div DayLen

\* timestamp.slice(11, 16): the HH:MM text of the stored UTC timestamp
SliceTimeOfDay(iso) == iso % DayLen

\* index.vue getBookingsOverlappingTime
GetBookingsOverlappingTime(rows, d, tau, time, z) ==
    LET dateStr == FormatDate(d, tau, z)
        slotTime == InstantOf(dateStr, time, z)
    IN {b \in rows : /\ b.booking_date = dateStr
                     /\ slotTime >= b.start_time
                     /\ slotTime < b.end_time}

IsTimeSlotOccupied(rows, d, tau, time, z) ==
    GetBookingsOverlappingTime(rows, d, tau, time, z) # {}

\* StepCustomerInfo.vue isTimeSlotAvailable; selectedDate is a local midnight
IsTimeSlotAvailable(rows, selectedDate, time, z) ==
    LET dateStr == FormatDate(selectedDate, 0, z)
    IN ~ \E b \in rows :
           /\ b.booking_date = dateStr
           /\ time >= SliceTimeOfDay(b.start_time)
           /\ time <= SliceTimeOfDay(b.end_time)

\* The calendar page renders one cell: day d (a Date with time of day tau),
\* slot label time.
QueryCalendar(principal, z, d, tau, time) ==
    /\ avail' = [page |-> "calendar",
                 occupied |-> IsTimeSlotOccupied(GetBookings(principal, Absent),
                                                 d, tau, time, z)]
    /\ UNCHANGED <<booking, service, nextId, ncalls, last, req, grid, wz>>

\* The booking wizard renders one slot button for the selected employee e
\* and the selected day.
QueryWizard(principal, z, e, selectedDate, time) ==
    /\ avail' = [page |-> "wizard",
                 occupied |-> ~IsTimeSlotAvailable(GetBookings(principal, e),
                                                   selectedDate, time, z)]
    /\ UNCHANGED <<booking, service, nextId, ncalls, last, req, grid, wz>>

----------------------------------------------------------------------------
(* The wizard's slot grid: the computed value timeSlots, one loop step at a  *)
(* time.  A slot label "HH:MM" is held as its minutes since midnight.        *)

OpenHour == 8
CloseHour == 20
MinutesPerHour == 60
StepMinutes == 30

\* `${hour padded}:${minute padded}`
TimeLabel(hour, minute) == hour * MinutesPerHour + minute

\* A variant of the break that lets the first step past the closing hour
\* through
StopAfterFirstStepPastClose(hour, minute) == hour = CloseHour /\ minute > StepMinutes

\* if (hour === 20 && minute > 0) break
StopAtClose(hour, minute) == hour = CloseHour /\ minute > 0

\* The computed value is (re-)evaluated: const slots = [], hour = 8
Evaluate ==
    /\ grid.pc \in {"idle", "done"}
    /\ grid' = [pc |-> "outer", hour |-> OpenHour, minute |-> 0, slots |-> <<>>,
                first |-> IF grid.pc = "done" THEN grid.slots ELSE grid.first]
    /\ UNCHANGED <<booking, service, nextId, ncalls, last, req, avail, wz>>

\* hour <= 20 ? enter the inner loop with minute = 0 : return slots
OuterTest ==
    /\ grid.pc = "outer"
    /\ grid' = IF grid.hour <= CloseHour
               THEN [grid EXCEPT !.pc = "inner", !.minute = 0]
               ELSE [grid EXCEPT !.pc = "done"]
    /\ UNCHANGED <<booking, service, nextId, ncalls, last, req, avail, wz>>

\* minute < 60 ? go on to the body : leave the inner loop, hour++
InnerTest ==
    /\ grid.pc = "inner"
    /\ grid' = IF grid.minute < MinutesPerHour
               THEN [grid EXCEPT !.pc = "body"]
               ELSE [grid EXCEPT !.pc = "outer", !.hour = @ + 1]
    /\ UNCHANGED <<booking, service, nextId, ncalls, last, req, avail, wz>>

\* the break, or on to the push
BreakTest ==
    /\ grid.pc = "body"
    /\ grid' = IF StopAtClose(grid.hour, grid.minute)
               THEN [grid EXCEPT !.pc = "outer", !.hour = @ + 1]
               ELSE [grid EXCEPT !.pc = "push"]
    /\ UNCHANGED <<booking, service, nextId, ncalls, last, req, avail, wz>>

\* slots.push(time); minute += 30
Push ==
    /\ grid.pc = "push"
    /\ grid' = [grid EXCEPT !.pc = "inner",
                            !.slots = Append(@, TimeLabel(grid.hour, grid.minute)),
                            !.minute = @ + StepMinutes]
    /\ UNCHANGED <<booking, service, nextId, ncalls, last, req, avail, wz>>

----------------------------------------------------------------------------
(* The public booking wizard: the composable useBookingFlow (bookingState,   *)
(* currentStep), the step components' handlers, and the page around them.    *)
(* A step component's handlers exist while the page renders it, that is      *)
(* while currentStep is its step; the composable's functions always exist.   *)

\* Phone numbers of ten characters or more; the last belongs to no customer
LongPhones == 1..NumPhones

\* phone: ''
EmptyText == 0

\* A phone number under ten characters
ShortPhone == NumPhones + 1

\* The values goToStep is called with
StepArgs == 0..MaxStepArg

LastStep == 4

\* GET /api/customers/check-phone: the id of the customer with that phone
CustomerByPhone(p) == IF p < NumPhones THEN p ELSE Absent

EmptyInfo == [filled |-> FALSE, phone |-> EmptyText]

\* bookingState and currentStep as the module creates them, with the page's
\* clientProfileId set, the page's refs, the employee that was selected
\* when selectTimeSlot last accepted a slot, the lookups in flight, the last
\* toast, where submitBooking stands, and whether it has sent its requests
InitialWizard ==
    [clientProfileId |-> 1,
     selectedServices |-> <<>>,
     selectedEmployee |-> Absent,
     selectedDate |-> Absent,
     selectedTime |-> Absent,
     customerInfo |-> EmptyInfo,
     existingCustomerId |-> Absent,
     currentStep |-> 1,
     pickedDay |-> Absent,
     slotCheckedFor |-> Absent,
     lookups |-> {},
     loading |-> FALSE,
     showSuccess |-> FALSE,
     toast |-> "none",
     phase |-> "idle",
     sent |-> FALSE]

ServerUnchanged == UNCHANGED <<booking, service, nextId, ncalls, last, req, avail, grid>>

\* indexOf / splice / push
IndexOf(seq, x) == IF \E i \in 1..Len(seq) : seq[i] = x
                   THEN CHOOSE i \in 1..Len(seq) : seq[i] = x
                   ELSE 0

Splice(seq, i) == [j \in 1..(Len(seq) - 1) |-> IF j < i THEN seq[j] ELSE seq[j + 1]]

ToggleService(s) ==
    /\ wz.currentStep = 1
    /\ wz' = [wz EXCEPT !.selectedServices =
                 IF IndexOf(@, s) > 0 THEN Splice(@, IndexOf(@, s)) ELSE Append(@, s)]
    /\ ServerUnchanged

SelectEmployee(e) ==
    /\ wz.currentStep = 2
    /\ wz' = [wz EXCEPT !.selectedEmployee = e]
    /\ ServerUnchanged

\* selectDate: the component's own selectedDate ref, a local midnight
SelectDate(d) ==
    /\ wz.currentStep = 3
    /\ wz' = [wz EXCEPT !.pickedDay = d]
    /\ ServerUnchanged

\* selectTimeSlot in a browser of zone z that sees the bookings of principal
SelectTimeSlot(principal, z, time) ==
    /\ wz.currentStep = 3
    /\ wz' = IF wz.pickedDay = Absent
             THEN wz
             ELSE IF ~IsTimeSlotAvailable(GetBookings(principal, wz.selectedEmployee),
                                          wz.pickedDay, time, z)
             THEN wz
             ELSE [wz EXCEPT !.selectedDate = FormatDate(wz.pickedDay, 0, z),
                             !.selectedTime = time,
                             !.slotCheckedFor = wz.selectedEmployee]
    /\ ServerUnchanged

\* A step component is unmounted when currentStep leaves its step: the date
\* picker's selectedDate ref is gone with it
AtStep(w, step) ==
    [w EXCEPT !.currentStep = step,
              !.pickedDay = IF step = w.currentStep THEN @ ELSE Absent]

\* A variant of goToStep without the range test
GoToStepUnchecked(step) ==
    /\ wz' = AtStep(wz, step)
    /\ ServerUnchanged

GoToStep(step) ==
    /\ wz' = IF step >= 1 /\ step <= LastStep THEN AtStep(wz, step) ELSE wz
    /\ ServerUnchanged

NextStep ==
    /\ wz' = IF wz.currentStep < LastStep THEN AtStep(wz, wz.currentStep + 1) ELSE wz
    /\ ServerUnchanged

PrevStep ==
    /\ wz' = IF wz.currentStep > 1 THEN AtStep(wz, wz.currentStep - 1) ELSE wz
    /\ ServerUnchanged

\* resetBooking: everything but clientProfileId back to its first value.  The
\* page's refs and the lookups in flight are not the composable's.
Reset(w) ==
    [AtStep(w, 1) EXCEPT
        !.selectedServices = <<>>,
        !.selectedEmployee = Absent,
        !.selectedDate = Absent,
        !.selectedTime = Absent,
        !.customerInfo = EmptyInfo,
        !.existingCustomerId = Absent,
        !.slotCheckedFor = Absent]

ResetBooking ==
    /\ wz' = Reset(wz)
    /\ ServerUnchanged

\* The customer form of step 4: the fields other than the phone are typed
FillForm ==
    /\ wz.currentStep = LastStep
    /\ wz' = [wz EXCEPT !.customerInfo.filled = TRUE]
    /\ ServerUnchanged

\* The phone field changes to p; watch(phone) starts checkCustomerByPhone
\* when p has ten characters or more
TypePhone(p) ==
    /\ wz.currentStep = LastStep
    /\ p # wz.customerInfo.phone
    /\ wz' = [wz EXCEPT !.customerInfo.phone = p,
                        !.lookups = IF p \in LongPhones THEN @ \cup {p} ELSE @]
    /\ ServerUnchanged

\* The response of the lookup for phone p arrives (ok), or the fetch fails
LookupReturns(p, ok) ==
    /\ p \in wz.lookups
    /\ wz' = [wz EXCEPT !.lookups = @ \ {p},
                        !.existingCustomerId = IF ok THEN CustomerByPhone(p) ELSE Absent]
    /\ ServerUnchanged

\* canProceedToStep2..4 and the page's canProceed
CanProceedToStep2(w) == Len(w.selectedServices) > 0
CanProceedToStep3(w) == w.selectedEmployee # Absent
CanProceedToStep4(w) == w.selectedDate # Absent /\ w.selectedTime # Absent

CanProceed(w) ==
    CASE w.currentStep = 1 -> CanProceedToStep2(w)
      [] w.currentStep = 2 -> CanProceedToStep3(w)
      [] w.currentStep = 3 -> CanProceedToStep4(w)
      [] OTHER -> FALSE

\* The page's Next button: shown below step 4, disabled unless canProceed
ClickNext ==
    /\ wz.currentStep < LastStep
    /\ CanProceed(wz)
    /\ NextStep

\* customerSchema.safeParse(customerInfo)
FormValid(w) == w.customerInfo.filled /\ w.customerInfo.phone \in LongPhones

\* The number of requests a submission sends: one per selected service
Requests(w) == 1..Len(w.selectedServices)

\* submitBooking up to its first await: validation, loading = true, and with
\* a known customer the POSTs of bookingPromises.  One submission is
\* followed.
Submit ==
    /\ wz.currentStep = LastStep
    /\ ~wz.loading
    /\ ~wz.showSuccess
    /\ ~wz.sent
    /\ wz' = IF ~FormValid(wz)
             THEN [wz EXCEPT !.toast = "validation"]
             ELSE IF wz.existingCustomerId = Absent
             THEN [wz EXCEPT !.loading = TRUE, !.phase = "customer"]
             ELSE [wz EXCEPT !.loading = TRUE, !.phase = "requests", !.sent = TRUE]
    /\ ServerUnchanged

\* POST /api/customers answers: the bookings are sent, or the catch block and
\* finally run
CustomerCreated(ok) ==
    /\ wz.phase = "customer"
    /\ wz' = IF ok
             THEN [wz EXCEPT !.phase = "requests", !.sent = TRUE]
             ELSE [wz EXCEPT !.phase = "idle", !.toast = "failed", !.loading = FALSE]
    /\ ServerUnchanged

\* A variant of the success path that resolves as soon as one request has
\* succeeded
SubmitSucceedsOnFirst ==
    /\ wz.phase = "requests"
    /\ \E c \in Requests(wz) : req[c].pc = "done" /\ req[c].code = 200
    /\ wz' = [wz EXCEPT !.phase = "idle", !.toast = "confirmed",
                        !.showSuccess = TRUE, !.loading = FALSE]
    /\ ServerUnchanged

\* Promise.all resolves: the toast, emit('booking-complete') and the page's
\* handleBookingComplete, then finally
SubmitSucceeds ==
    /\ wz.phase = "requests"
    /\ \A c \in Requests(wz) : req[c].pc = "done" /\ req[c].code = 200
    /\ wz' = [wz EXCEPT !.phase = "idle", !.toast = "confirmed",
                        !.showSuccess = TRUE, !.loading = FALSE]
    /\ ServerUnchanged

\* Promise.all rejects with the first rejection: the catch block, then
\* finally; the other requests stay with the server
SubmitFails ==
    /\ wz.phase = "requests"
    /\ \E c \in Requests(wz) : req[c].pc = "done" /\ req[c].code # 200
    /\ wz' = [wz EXCEPT !.phase = "idle", !.toast = "failed", !.loading = FALSE]
    /\ ServerUnchanged

\* The success page's button: startNewBooking
StartNewBooking ==
    /\ wz.showSuccess
    /\ wz' = [Reset(wz) EXCEPT !.showSuccess = FALSE]
    /\ ServerUnchanged

----------------------------------------------------------------------------
(* Specification: calls through every entry point, one at a time *)

Init ==
    /\ booking = {}
    /\ service = [s \in Services |-> [price |-> s, duration |-> s]]
    /\ nextId = 1
    /\ ncalls = 0
    /\ last = NoCall
    /\ req = [c \in Clients |-> IdleReq]
    /\ avail = NoPage
    /\ grid = NotEvaluated
    /\ wz = InitialWizard

Next ==
    \/ \E e \in RequestedEmployees, s \in RequestedServices,
          d \in RequestedDates, t \in RequestedTimes : PublicCreate(e, s, d, t)
    \/ \E e \in RequestedEmployees, s \in RequestedServices,
          d \in RequestedDates, t \in RequestedTimes : AdminCreate(e, s, d, t)
    \/ \E id \in BookingIds, patch \in Patches : AdminUpdate(id, patch)
    \/ \E s \in Services, price \in Prices, duration \in Durations :
           ServiceUpdate(s, price, duration)
    \/ \E id \in BookingIds : AdminDelete(id)
    \/ \E u \in Employees, method \in Methods : EmployeeRequest(u, method)

Spec == Init /\ [][Next]_vars

----------------------------------------------------------------------------
(* Specification: public creates only, one at a time *)

NextPublic ==
    \E e \in Employees, s \in RequestedServices, d \in Dates, t \in TimesOfDay :
        PublicCreate(e, s, d, t)

SpecPublic == Init /\ [][NextPublic]_vars

----------------------------------------------------------------------------
(* POST /api/public-bookings as concurrent requests.  Each client sends one *)
(* request; the handler's awaits split it into the reads that precede the   *)
(* conflict query, the conflict query, and the insert.                      *)

\* Body validation, the service lookup and the start/end computation
ReqBegin(c, e, s, d, t) ==
    /\ req[c].pc = "idle"
    /\ IF ~ServiceFound(s)
       THEN req' = [req EXCEPT ![c] = [IdleReq EXCEPT !.pc = "done", !.code = 404]]
       ELSE LET startDateTime == LocalDateTime(d, t)
                endDateTime == startDateTime + service[s].duration
            IN req' = [req EXCEPT ![c] =
                   [pc |-> "check", employee_id |-> e, service_id |-> s,
                    booking_date |-> d,
                    startTimeISO |-> ToISOString(startDateTime),
                    endTimeISO |-> ToISOString(endDateTime),
                    price |-> service[s].price,
                    duration |-> service[s].duration, code |-> 0]]
    /\ UNCHANGED <<booking, service, nextId, ncalls, last, avail, grid, wz>>

\* The conflict query and the 409 it may raise
ReqCheck(c) ==
    /\ req[c].pc = "check"
    /\ LET r == req[c]
           conflicts == Conflicts(booking, r.employee_id, r.booking_date,
                                  r.startTimeISO, r.endTimeISO)
       IN IF conflicts # {}
          THEN req' = [req EXCEPT ![c].pc = "done", ![c].code = 409]
          ELSE req' = [req EXCEPT ![c].pc = "insert"]
    /\ UNCHANGED <<booking, service, nextId, ncalls, last, avail, grid, wz>>

\* The insert
ReqInsert(c) ==
    /\ req[c].pc = "insert"
    /\ nextId <= MaxBookings
    /\ LET r == req[c]
       IN booking' = booking \cup
              {NewRow(r.employee_id, r.service_id, r.booking_date, r.startTimeISO,
                      r.endTimeISO, [price |-> r.price, duration |-> r.duration])}
    /\ nextId' = nextId + 1
    /\ req' = [req EXCEPT ![c].pc = "done", ![c].code = 200]
    /\ UNCHANGED <<service, ncalls, last, avail, grid, wz>>

NextConc ==
    \/ \E c \in Clients, e \in Employees, s \in RequestedServices,
          d \in Dates, t \in TimesOfDay : ReqBegin(c, e, s, d, t)
    \/ \E c \in Clients : ReqCheck(c)
    \/ \E c \in Clients : ReqInsert(c)

SpecConc == Init /\ [][NextConc]_vars

----------------------------------------------------------------------------
(* Specification: bookings are made and cancelled, services are edited, and  *)
(* the pages are asked about slots.                                          *)

\* {status: 'cancelled'}
CancelPatch == [EmptyPatch EXCEPT !.status = "cancelled"]

\* Each page is asked once per stored state: a second question would only
\* overwrite the first answer.
NextAvail ==
    \/ \E e \in Employees, s \in Services, d \in Dates, t \in TimesOfDay :
           PublicCreate(e, s, d, t)
    \/ \E id \in BookingIds : AdminUpdate(id, CancelPatch)
    \/ \E s \in Services, duration \in Durations :
           ServiceUpdate(s, service[s].price, duration)
    \/ /\ avail = NoPage
       /\ \E principal \in Principals, z \in BrowserZones,
             d \in Dates, tau \in TimesOfDay, time \in TimesOfDay :
              QueryCalendar(principal, z, d, tau, time)
    \/ /\ avail = NoPage
       /\ \E principal \in Principals, z \in BrowserZones,
             e \in Employees, d \in Dates, time \in TimesOfDay :
              QueryWizard(principal, z, e, d, time)

SpecAvail == Init /\ [][NextAvail]_vars

----------------------------------------------------------------------------
(* Specification: the slot grid is evaluated, again and again *)

NextSlots == Evaluate \/ OuterTest \/ InnerTest \/ BreakTest \/ Push

SpecSlots == Init /\ [][NextSlots]_vars

----------------------------------------------------------------------------
(* Specification: the wizard's functions, called in any order in a browser   *)
(* on the server's clock with no session                                     *)

Guest == [role |-> "guest", employee |-> Absent]

NextFlow ==
    \/ \E s \in Services : ToggleService(s)
    \/ \E e \in Employees : SelectEmployee(e)
    \/ \E d \in Dates : SelectDate(d)
    \/ \E time \in TimesOfDay : SelectTimeSlot(Guest, TzOffset, time)
    \/ \E step \in StepArgs : GoToStep(step)
    \/ NextStep
    \/ PrevStep
    \/ ResetBooking
    \/ FillForm
    \/ \E p \in LongPhones \cup {EmptyText, ShortPhone} : TypePhone(p)
    \/ \E p \in LongPhones, ok \in BOOLEAN : LookupReturns(p, ok)

SpecFlow == Init /\ [][NextFlow]_vars

----------------------------------------------------------------------------
(* Specification: a visitor walks the wizard forward by the page's buttons   *)
(* and submits once; the server handles the submission's requests            *)
(* concurrently.                                                             *)

\* The server takes up the submission's request for its c-th service
ServeBegin(c) ==
    /\ wz.sent
    /\ c \in Requests(wz)
    /\ ReqBegin(c, wz.selectedEmployee, wz.selectedServices[c],
                wz.selectedDate, wz.selectedTime)

\* The visitor fills the form before submitting and leaves it alone
\* afterwards; the phone typed is that of a known customer.
BeforeSubmit == wz.phase = "idle" /\ ~wz.sent

NextSubmit ==
    \/ \E s \in Services : ToggleService(s)
    \/ \E e \in Employees : SelectEmployee(e)
    \/ \E d \in Dates : SelectDate(d)
    \/ \E time \in TimesOfDay : SelectTimeSlot(Guest, TzOffset, time)
    \/ ClickNext
    \/ BeforeSubmit /\ FillForm
    \/ BeforeSubmit /\ \E p \in LongPhones : CustomerByPhone(p) # Absent /\ TypePhone(p)
    \/ BeforeSubmit /\ \E p \in LongPhones : LookupReturns(p, TRUE)
    \/ Submit
    \/ \E ok \in BOOLEAN : CustomerCreated(ok)
    \/ \E c \in Clients : ServeBegin(c)
    \/ \E c \in Clients : ReqCheck(c)
    \/ \E c \in Clients : ReqInsert(c)
    \/ SubmitSucceeds
    \/ SubmitFails
    \/ StartNewBooking

SpecSubmit == Init /\ [][NextSubmit]_vars

----------------------------------------------------------------------------
(* Properties *)

\* Half-open interval intersection of [s1, e1) and [s2, e2)
Intersects(s1, e1, s2, e2) == s1 < e2 /\ e1 > s2

RowsIntersect(a, b) == Intersects(a.start_time, a.end_time, b.start_time, b.end_time)

Active(b) == b.status # "cancelled"

\* Calendar date, in local reckoning, of a stored timestamp
LocalDateOf(iso) == ParseISO(iso) \div DayLen

\* The interval a create request asks for
RequestStart(d, t) == ToISOString(LocalDateTime(d, t))
RequestEnd(s, d, t) == RequestStart(d, t) + service[s].duration

\* C1: after any sequence of public create calls executed one at a time, any
\* two distinct non-cancelled bookings of one employee have disjoint
\* [start_time, end_time) intervals.
C1_PublicCreatesNeverOverlap ==
    \A a \in booking : \A b \in booking :
        (a.id # b.id /\ a.employee_id = b.employee_id /\ Active(a) /\ Active(b))
            => ~RowsIntersect(a, b)

\* C2: of two concurrent public creates for one employee whose intervals
\* intersect, at most one performs its insert, however their steps
\* interleave.  (Stated for requests on the same booking_date, where the
\* conflict query of a request that runs alone would see the other's row.)
C2_AtMostOneInsert ==
    \A c1 \in Clients : \A c2 \in Clients :
        (/\ c1 # c2
         /\ req[c1].code = 200
         /\ req[c2].pc # "idle"
         /\ req[c2].employee_id = req[c1].employee_id
         /\ req[c2].booking_date = req[c1].booking_date
         /\ Intersects(req[c1].startTimeISO, req[c1].endTimeISO,
                       req[c2].startTimeISO, req[c2].endTimeISO))
            => req[c2].code # 200

\* C3: whatever mix of entry points wrote them, two non-cancelled bookings of
\* one employee never overlap.  (Stated for rows of one booking_date, the
\* rows an overlap test scoped by date would compare.)
C3_NoEntryPointWritesOverlap ==
    \A a \in booking : \A b \in booking :
        (/\ a.id # b.id
         /\ a.employee_id = b.employee_id
         /\ a.booking_date = b.booking_date
         /\ Active(a) /\ Active(b))
            => ~RowsIntersect(a, b)

\* C4: an update that patches employee_id, service_id, booking_date or
\* start_time is persisted only if the edited booking's target interval
\* overlaps no other non-cancelled booking of the target employee.  (Stated
\* for updates that leave the edited row non-cancelled and with
\* booking_date, start_time and end_time agreeing with its service, so that
\* the stored interval is the merged target interval.)
C4_UpdateRejectsOverlap ==
    [][(/\ last'.op = "adminUpdate"
        /\ last'.code = 200
        /\ last'.shape # "plain")
       => \A new \in booking' : \A o \in booking' :
              (/\ new.id = last'.id
               /\ o.id # new.id
               /\ o.employee_id = new.employee_id
               /\ Active(o) /\ Active(new)
               /\ new.booking_date = LocalDateOf(new.start_time)
               /\ new.end_time = new.start_time + service[new.service_id].duration)
              => ~RowsIntersect(new, o)
      ]_vars

\* C5: a public create is answered 409 only if the requested half-open
\* interval intersects an existing booking of that employee; a request that
\* merely touches an existing booking's start or end is not a conflict.
C5_ConflictOnlyOnIntersection ==
    [][\A e \in Employees : \A s \in Services : \A d \in Dates : \A t \in TimesOfDay :
        (PublicCreate(e, s, d, t) /\ last'.code = 409)
        => \E b \in booking :
               /\ b.employee_id = e
               /\ Intersects(b.start_time, b.end_time,
                             RequestStart(d, t), RequestEnd(s, d, t))
      ]_vars

\* C6: a public create whose interval overlaps an existing non-cancelled
\* booking of the same employee is answered 409 and leaves the booking
\* table as it was.
C6_OverlapAlwaysConflict ==
    [][\A e \in Employees : \A s \in Services : \A d \in Dates : \A t \in TimesOfDay :
        (/\ PublicCreate(e, s, d, t)
         /\ \E b \in booking :
                /\ b.employee_id = e
                /\ Active(b)
                /\ Intersects(b.start_time, b.end_time,
                              RequestStart(d, t), RequestEnd(s, d, t)))
        => (last'.code = 409 /\ booking' = booking)
      ]_vars

\* C7: when every booking of the employee that intersects the requested
\* interval is cancelled, a public create succeeds.  (Stated for requests
\* that no non-cancelled booking of the employee so much as touches.)
C7_CancelledSlotIsFree ==
    [][\A e \in Employees : \A s \in Services : \A d \in Dates : \A t \in TimesOfDay :
        (/\ PublicCreate(e, s, d, t)
         /\ \E b \in booking :
                /\ b.employee_id = e
                /\ ~Active(b)
                /\ Intersects(b.start_time, b.end_time,
                              RequestStart(d, t), RequestEnd(s, d, t))
         /\ \A b \in booking :
                (b.employee_id = e /\ Active(b))
                => \/ b.end_time < RequestStart(d, t)
                   \/ b.start_time > RequestEnd(s, d, t))
        => last'.code = 200
      ]_vars

\* C8: every stored booking has end_time = start_time + the duration of its
\* service as resolved when the booking was created or last had its date,
\* time or service changed.
C8_EndIsStartPlusDuration ==
    \A b \in booking : b.end_time = b.start_time + b.resolved_duration

\* C9: a booking's total_price is frozen at creation: no call changes the
\* total_price of a stored booking.  (Stated for calls that leave the
\* booking's service_id as it was.)
C9_PriceFrozenAtCreation ==
    [][\A b \in booking : \A n \in booking' :
        (n.id = b.id /\ n.service_id = b.service_id)
        => n.total_price = b.total_price
      ]_vars

\* C10: every stored booking's booking_date is the calendar date of its
\* start_time.
C10_DateIsDateOfStart ==
    \A b \in booking : b.booking_date = LocalDateOf(b.start_time)

\* C11: booking status follows the lifecycle pending -> confirmed ->
\* completed, with cancellation from pending or confirmed: a new booking is
\* pending, a cancelled booking stays cancelled, and no call moves a
\* booking's status backwards.
StatusRank(st) ==
    CASE st = "pending" -> 0
      [] st = "confirmed" -> 1
      [] st = "completed" -> 2
      [] st = "cancelled" -> 3

C11_StatusLifecycle ==
    [][/\ \A n \in booking' :
            (\A b \in booking : b.id # n.id) => n.status = "pending"
       /\ \A b \in booking : \A n \in booking' :
            n.id = b.id => StatusRank(n.status) >= StatusRank(b.status)
      ]_vars

\* C12: an update whose patch holds none of employee_id, service_id,
\* booking_date and start_time (a status or notes edit, a cancellation
\* included) is not checked against other bookings: it succeeds whenever the
\* booking exists, leaves its employee_id, service_id, booking_date,
\* start_time, end_time and total_price as they were, and leaves every other
\* booking alone.
SameSchedule(b, n) ==
    /\ n.employee_id = b.employee_id
    /\ n.service_id = b.service_id
    /\ n.booking_date = b.booking_date
    /\ n.start_time = b.start_time
    /\ n.end_time = b.end_time
    /\ n.total_price = b.total_price

C12_PlainEditKeepsSchedule ==
    [][(/\ last'.op = "adminUpdate"
        /\ last'.shape = "plain"
        /\ ncalls' # ncalls
        /\ BookingFound(last'.id))
       => /\ last'.code = 200
          /\ \A b \in booking : \E n \in booking' :
                /\ n.id = b.id
                /\ SameSchedule(b, n)
                /\ (b.id # last'.id => n = b)
          /\ Cardinality(booking') = Cardinality(booking)
      ]_vars

\* A status edit has cancelled a booking of a service whose price or duration
\* was changed after the booking was made.
C12_Witness ==
    /\ last.op = "adminUpdate"
    /\ last.shape = "plain"
    /\ last.code = 200
    /\ \E b \in booking :
          /\ b.id = last.id
          /\ b.status = "cancelled"
          /\ \/ b.total_price # service[b.service_id].price
             \/ b.resolved_duration # service[b.service_id].duration

\* C17: a create request whose employee id is not an identifier, whose date
\* is not a date or whose start time is not HH:MM is answered with a 4xx
\* status on the public and on the admin path, and stores nothing.
Malformed(e, d, t) == e = BadId \/ d = BadDate \/ t = BadTimeText

ClientError == 400..499

C17_MalformedCreateIsClientError ==
    [][\A e \in RequestedEmployees, s \in RequestedServices,
          d \in RequestedDates, t \in RequestedTimes :
          (/\ Malformed(e, d, t)
           /\ (PublicCreate(e, s, d, t) \/ AdminCreate(e, s, d, t)))
          => (last'.code \in ClientError /\ booking' = booking)
      ]_vars

\* C18: a well-formed create that names a service or an employee that does
\* not exist is answered 404 and stores nothing.
C18_UnknownReferenceIsNotFound ==
    [][\A e \in RequestedEmployees, s \in RequestedServices,
          d \in RequestedDates, t \in RequestedTimes :
          (/\ AdminBodyValid(e, s, d, t)
           /\ ValidTime(t)
           /\ (~ServiceFound(s) \/ ~EmployeeFound(e))
           /\ (PublicCreate(e, s, d, t) \/ AdminCreate(e, s, d, t)))
          => (last'.code = 404 /\ booking' = booking)
      ]_vars

\* C19: an update that names a booking id that is not stored is answered 404
\* whatever its patch holds, and changes no stored booking.
C19_UpdateOfUnknownIdIsNotFound ==
    [][(/\ last'.op = "adminUpdate"
        /\ ncalls' # ncalls
        /\ ~BookingFound(last'.id))
       => (last'.code = 404 /\ booking' = booking)
      ]_vars

\* C20: a create or update call that answers with an error of any kind (400,
\* 404, 409 or 500) leaves the stored bookings exactly as they were.
BookingCalls == {"publicCreate", "adminCreate", "adminUpdate"}

C20_NoPartialWrites ==
    [][(/\ last'.op \in BookingCalls
        /\ ncalls' # ncalls
        /\ last'.code # 200)
       => (booking' = booking /\ nextId' = nextId)
      ]_vars

\* A public create has been refused as a conflict while bookings are stored.
C20_Witness ==
    /\ last.op = "publicCreate"
    /\ last.code = 409
    /\ booking # {}

\* C13: the availability check reports slot t occupied for an employee
\* exactly when a booking of that employee that is not cancelled has
\* start <= t < end; other employees' bookings and cancelled bookings never
\* occupy the slot.  Stated for an admin's pages, over stores whose bookings
\* each lie within the one day their booking_date names, and for slots at
\* which no booking ends: the calendar in a browser on the server's clock,
\* the wizard in a browser on UTC.
Covered(e, instant) ==
    \E b \in booking :
        /\ b.employee_id = e
        /\ b.status # "cancelled"
        /\ b.start_time <= instant
        /\ instant < b.end_time

Admin == [role |-> "admin", employee |-> Absent]

WithinLocalDay(b) ==
    /\ LocalDateOf(b.start_time) = b.booking_date
    /\ LocalDateOf(b.end_time - 1) = b.booking_date

WithinUTCDay(b) ==
    /\ b.start_time \div DayLen = b.booking_date
    /\ b.end_time \div DayLen = b.booking_date

C13_OccupiedIffOwnActiveBooking ==
    [][/\ \A e \in Employees, d \in Dates, tau \in TimesOfDay, time \in TimesOfDay :
            (/\ \A b \in booking : WithinLocalDay(b)
             /\ QueryCalendar(Admin, TzOffset, d, tau, time))
            => (avail'.occupied <=>
                   Covered(e, InstantOf(FormatDate(d, tau, TzOffset), time, TzOffset)))
       /\ \A e \in Employees, d \in Dates, time \in TimesOfDay :
            (/\ \A b \in booking :
                   WithinUTCDay(b) /\ b.end_time # InstantOf(d, time, 0)
             /\ QueryWizard(Admin, 0, e, d, time))
            => (avail'.occupied <=> Covered(e, InstantOf(d, time, 0)))
      ]_vars

\* C14: a booking's end is exclusive: the slot whose time is a booking's end
\* is reported available unless another booking covers it.  Stated for the
\* wizard of an admin whose browser runs on UTC, over stores whose bookings
\* each lie within the one day their booking_date names.
C14_EndSlotIsAvailable ==
    [][\A e \in Employees, d \in Dates, time \in TimesOfDay :
          (/\ \A b \in booking : WithinUTCDay(b)
           /\ \E b \in booking : b.end_time = InstantOf(d, time, 0)
           /\ \A b \in booking :
                 ~(b.start_time <= InstantOf(d, time, 0)
                      /\ InstantOf(d, time, 0) < b.end_time)
           /\ QueryWizard(Admin, 0, e, d, time))
          => ~avail'.occupied
      ]_vars

\* C15: a booking of three buckets (90 minutes) is reported occupied at its
\* start bucket and the two after it, and free at the bucket where it ends.
\* Stated for the wizard of an admin whose browser runs on UTC, with that
\* booking the only one stored and lying within one day.
C15_EveryBucketOfALongBooking ==
    [][\A e \in Employees, d \in Dates, time \in TimesOfDay :
          (/\ \E b \in booking :
                 /\ booking = {b}
                 /\ b.employee_id = e
                 /\ b.status # "cancelled"
                 /\ WithinUTCDay(b)
                 /\ b.end_time = b.start_time + 3
           /\ QueryWizard(Admin, 0, e, d, time))
          => (avail'.occupied <=> Covered(e, InstantOf(d, time, 0)))
      ]_vars

\* C16: the slot grid for 08:00-20:00 in 30-minute steps is a sequence of
\* exactly 25 times of day, the first 08:00, the last 20:00 (no 20:30), each
\* 30 minutes after the one before it, and every evaluation returns the same
\* sequence as the one before.
C16_GridIs25HalfHours ==
    grid.pc = "done" =>
        /\ Len(grid.slots) = 25
        /\ grid.slots[1] = 8 * 60
        /\ grid.slots[25] = 20 * 60
        /\ \A i \in 1..24 : grid.slots[i + 1] = grid.slots[i] + 30
        /\ \A i \in 1..25 : grid.slots[i] # 20 * 60 + 30
        /\ (grid.first # <<>> => grid.slots = grid.first)

\* A second evaluation has returned.
C16_Witness ==
    /\ grid.pc = "done"
    /\ grid.first # <<>>
    /\ Len(grid.slots) > 0

\* C27: the date and time held in bookingState belong to the employee now
\* selected: a slot that selectTimeSlot accepted while one employee was
\* selected is never held while another employee is.
C27_SlotBelongsToSelectedEmployee ==
    (wz.selectedTime # Absent /\ wz.slotCheckedFor # Absent)
        => wz.slotCheckedFor = wz.selectedEmployee

\* C28: the wizard stands at step n+1 or later only if the condition to
\* proceed to step n+1 holds; at step 4 services, employee, date and time
\* are all selected.
C28_StepImpliesSelections ==
    /\ wz.currentStep >= 2 => CanProceedToStep2(wz)
    /\ wz.currentStep >= 3 => CanProceedToStep3(wz)
    /\ wz.currentStep >= 4 => CanProceedToStep4(wz)

\* C30: currentStep is always one of 1..4; nextStep at step 4, prevStep at
\* step 1 and goToStep with a number outside 1..4 leave it as it is; and
\* resetBooking sets it to 1 and clears every selection but clientProfileId.
C30_StepStaysInRange ==
    /\ [](wz.currentStep \in 1..4)
    /\ [][/\ (NextStep /\ wz.currentStep = 4) => wz'.currentStep = 4
          /\ (PrevStep /\ wz.currentStep = 1) => wz'.currentStep = 1
          /\ \A step \in StepArgs :
                (GoToStep(step) /\ step \notin 1..4) => wz'.currentStep = wz.currentStep
          /\ ResetBooking =>
                /\ wz'.currentStep = 1
                /\ wz'.selectedServices = <<>>
                /\ wz'.selectedEmployee = Absent
                /\ wz'.selectedDate = Absent
                /\ wz'.selectedTime = Absent
                /\ wz'.customerInfo = EmptyInfo
                /\ wz'.existingCustomerId = Absent
                /\ wz'.clientProfileId = wz.clientProfileId
         ]_vars

\* The wizard stands at step 4 with services, a slot, a typed form and a
\* customer found by phone: nextStep has nowhere to go and resetBooking has
\* everything to clear.
C30_Witness ==
    /\ wz.currentStep = 4
    /\ wz.selectedServices # <<>>
    /\ wz.selectedTime # Absent
    /\ wz.customerInfo.filled
    /\ wz.existingCustomerId # Absent

\* C29: once every phone lookup has returned, existingCustomerId is what the
\* lookup of the phone number now in the field gives (or nothing, when that
\* lookup failed), never the customer of an earlier number.
C29_LookupMatchesCurrentPhone ==
    (wz.lookups = {} /\ wz.customerInfo.phone \in LongPhones)
        => wz.existingCustomerId \in {CustomerByPhone(wz.customerInfo.phone), Absent}

\* C21: a booking row, once created, is never removed from the store by
\* any call.
C21_BookingsAreRetained ==
    [][\A b \in booking : \E n \in booking' : n.id = b.id]_vars

\* C22: a public create for an employee is refused with 409 when its
\* interval intersects a booking of that employee that is not cancelled and
\* whose booking_date is another day (a booking that starts late on day D
\* and ends after midnight, against a request early on day D+1).
C22_ConflictAcrossMidnight ==
    [][\A e \in Employees, s \in Services, d \in Dates, t \in TimesOfDay :
          (/\ \E b \in booking :
                 /\ b.employee_id = e
                 /\ Active(b)
                 /\ b.booking_date # d
                 /\ Intersects(b.start_time, b.end_time,
                               RequestStart(d, t), RequestEnd(s, d, t))
           /\ PublicCreate(e, s, d, t))
          => (last'.code = 409 /\ booking' = booking)
      ]_vars

\* C24: every request to /api/bookings by an employee that is not a GET is
\* answered 403, never 409, and writes nothing; an employee's GET returns
\* exactly the bookings whose employee_id is that employee.
EmployeePrincipal(u) == [role |-> "employee", employee |-> u]

C24_EmployeeCannotWrite ==
    /\ [](\A u \in Employees :
            GetBookings(EmployeePrincipal(u), Absent)
                = {b \in booking : b.employee_id = u})
    /\ [][\A u \in Employees, method \in Methods :
            EmployeeRequest(u, method)
            => /\ booking' = booking
               /\ (method # "GET" => last'.code = 403)
               /\ last'.code # 409
         ]_vars

\* An employee's write has been refused while bookings of both employees
\* are stored.
C24_Witness ==
    /\ last.op = "employeeRequest"
    /\ last.shape \in {"POST", "PUT", "DELETE"}
    /\ last.code = 403
    /\ \E a, b \in booking : a.employee_id # b.employee_id

\* C23: the success page is shown only when every create request of the
\* submission has succeeded; a submission that ends with a rejected request
\* leaves the wizard on step 4 with the same selections, no success page,
\* the failure toast, and loading back to false.
SameSelections ==
    /\ wz'.selectedServices = wz.selectedServices
    /\ wz'.selectedEmployee = wz.selectedEmployee
    /\ wz'.selectedDate = wz.selectedDate
    /\ wz'.selectedTime = wz.selectedTime
    /\ wz'.customerInfo = wz.customerInfo

C23_SuccessOnlyIfAllSucceeded ==
    /\ [](wz.showSuccess
            => \A c \in Requests(wz) : req[c].pc = "done" /\ req[c].code = 200)
    /\ [][(wz.loading /\ ~wz'.loading)
            => \/ /\ wz'.showSuccess
                  /\ \A c \in Requests(wz) :
                        req[c].pc = "done" /\ req[c].code = 200
               \/ /\ ~wz'.showSuccess
                  /\ wz'.toast = "failed"
                  /\ wz'.currentStep = LastStep
                  /\ SameSelections
         ]_vars

\* A submission of two services has ended in 'Booking Failed' on a Conflict:
\* the wizard is on step 4, not loading, with both services still selected.
C23_Witness ==
    /\ wz.toast = "failed"
    /\ ~wz.loading
    /\ ~wz.showSuccess
    /\ wz.currentStep = LastStep
    /\ Len(wz.selectedServices) = 2
    /\ \E c \in Requests(wz) : req[c].pc = "done" /\ req[c].code = 409

\* C25: once a submission of two or more services has ended, either every
\* one of its bookings is stored or none is.
C25_SubmissionAllOrNothing ==
    (wz.sent /\ wz.phase = "idle" /\ Len(wz.selectedServices) >= 2)
    => Cardinality(booking) \in {0, Len(wz.selectedServices)}

\* C26: for a service of one grid step, the wizard reports a slot of the
\* selected employee and day available exactly when a public create of that
\* slot, with the date and time selectTimeSlot stores for it, is not rejected
\* with Conflict.
PublicCreateAccepts(e, s, d, t) ==
    Conflicts(booking, e, d, RequestStart(d, t), RequestEnd(s, d, t)) = {}

C26_WizardAgreesWithWriter ==
    [][\A principal \in Principals, z \in BrowserZones, e \in Employees,
          s \in Services, d \in Dates, time \in TimesOfDay :
          (/\ service[s].duration = 1
           /\ QueryWizard(principal, z, e, d, time))
          => (~avail'.occupied
                 <=> PublicCreateAccepts(e, s, FormatDate(d, 0, z), time))
      ]_vars

====
